---------------------------- MODULE Spec2Model ----------------------------
(***************************************************************************)
(* Model of the two BNObj pipelines of icc-eth1000-xml:                    *)
(*   csv-to-xml.py   update_from_csv         (Selective Updater)           *)
(*   csv-to-xml2.py  replace_bnobj_from_csv  (Full Replacer)               *)
(*                                                                         *)
(* A text value (element text, CSV cell) is a sequence of one-character    *)
(* strings, so that str.strip() and the f-string concatenations are        *)
(* computed and not assumed.  An element's text of None and of "" are both *)
(* the empty sequence: every read in the code goes through                 *)
(* findtext(tag, "") or "", which cannot tell them apart.                  *)
(* A BNObj is the sequence of its children [tag, text] in document order;  *)
(* the container is the sequence of its BNObj children, and a BNObj is     *)
(* referred to by its position in the container (the code never removes or *)
(* reorders a BNObj while it holds a reference to one).                    *)
(* Column names are atoms that carry no surrounding whitespace: the        *)
(* trimming of header names is not modelled, the trimming of cells is.     *)
(***************************************************************************)
EXTENDS Integers, Sequences, FiniteSets, TLC

VARIABLES
    pipeline,          \* "update" | "replace": which script runs
    xml_in,            \* the parsed input document: [found, recs]
    csv_in,            \* the CSV file: [header, cells] (raw, untrimmed cells)
    opts,              \* keyword arguments of the run
    run,               \* 1, or 2 for the rerun on the first run's output
    pc,                \* "start" | "rows" | "clear" | "done" | "abort"
    err,               \* which RuntimeError/ValueError ended the run
    tree,              \* BNObj children of the container node, in memory
    header,            \* loaded header
    rows,              \* loaded rows (dicts), mutated at csv-to-xml.py:155
    fields_to_update,  \* csv-to-xml.py:116-119
    idx,               \* key -> position in tree
    i,                 \* number of rows already consumed by the for loop
    changes,           \* change log
    added,
    skipped,
    removed,
    out                \* the output file: [written, recs]

vars == <<pipeline, xml_in, csv_in, opts, run, pc, err, tree, header, rows,
          fields_to_update, idx, i, changes, added, skipped, removed, out>>

(***************************************************************************)
(* Bounds of the model.                                                    *)
(***************************************************************************)
MaxRows == 2
MaxRecs == 2

(***************************************************************************)
(* Text.                                                                   *)
(***************************************************************************)
RECURSIVE LStrip(_)
LStrip(s) == IF s = <<>> THEN s
             ELSE IF Head(s) = " " THEN LStrip(Tail(s)) ELSE s

RECURSIVE RStrip(_)
RStrip(s) == IF s = <<>> THEN s
             ELSE IF s[Len(s)] = " " THEN RStrip(SubSeq(s, 1, Len(s) - 1)) ELSE s

Strip(s) == RStrip(LStrip(s))

Range(s) == {s[n] : n \in 1..Len(s)}

SeqsUpTo(S, n) == UNION {[1..m -> S] : m \in 0..n}

ALL_FIELDS == <<"Name", "VAddr", "DBAddr", "DSize", "Float", "Signed", "Units", "Mask">>

EmptyMap == [x \in {} |-> 0]

\* dict.get(k, default)
Get(d, k, default) == IF k \in DOMAIN d THEN d[k] ELSE default

\* d[k] = v
Put(d, k, v) == [x \in (DOMAIN d) \cup {k} |-> IF x = k THEN v ELSE d[x]]

(***************************************************************************)
(* ElementTree on a BNObj.                                                 *)
(***************************************************************************)
\* position of the first child with that tag, 0 if none (Element.find)
find(b, tag) ==
    IF \E n \in 1..Len(b) : b[n].tag = tag
    THEN CHOOSE n \in 1..Len(b) :
            b[n].tag = tag /\ \A m \in 1..(n - 1) : b[m].tag # tag
    ELSE 0

\* b.findtext(tag, "") or ""
findtext(b, tag) == IF find(b, tag) = 0 THEN <<>> ELSE b[find(b, tag)].text

set_child_text(parent, tag, value) ==
    IF find(parent, tag) = 0
    THEN Append(parent, [tag |-> tag, text |-> value])
    ELSE [parent EXCEPT ![find(parent, tag)].text = value]

(***************************************************************************)
(* csv-to-xml.py: loading, keys, index.                                    *)
(***************************************************************************)
\* the last column of that name wins in a DictReader row
LastCol(hdr, k) == CHOOSE n \in 1..Len(hdr) :
                      hdr[n] = k /\ \A m \in (n + 1)..Len(hdr) : hdr[m] # k

load_row(hdr, cells) == [k \in Range(hdr) |-> Strip(cells[LastCol(hdr, k)])]

load_csv_rows(csv) ==
    [header |-> csv.header,
     rows   |-> [n \in 1..Len(csv.cells) |-> load_row(csv.header, csv.cells[n])]]

get_row_key(r, key_mode) ==
    IF key_mode = "Name"
    THEN <<Strip(Get(r, "Name", <<>>))>>
    ELSE <<Strip(Get(r, "VAddr", <<>>)), Strip(Get(r, "DBAddr", <<>>))>>

\* any(key): some component is a non-empty string
AnyKey(key) == \E n \in 1..Len(key) : key[n] # <<>>

\* truth value of a tuple: it has at least one component
Truthy(k) == Len(k) > 0

detect_duplicate_keys(rs, key_mode) ==
    LET keys == [n \in 1..Len(rs) |-> get_row_key(rs[n], key_mode)]
        count(k) == Cardinality({n \in 1..Len(rs) : keys[n] = k})
    IN  {k \in Range(keys) : Truthy(k) /\ count(k) > 1}

\* index_bnobjs, BNObj n onwards: [raised, idx]
RECURSIVE index_from(_, _, _, _)
index_from(recs, key_mode, n, acc) ==
    IF n > Len(recs) THEN [raised |-> FALSE, idx |-> acc]
    ELSE LET b      == recs[n]
             name   == Strip(findtext(b, "Name"))
             vaddr  == Strip(findtext(b, "VAddr"))
             dbaddr == Strip(findtext(b, "DBAddr"))
         IN  IF key_mode = "Name"
             THEN index_from(recs, key_mode, n + 1,
                             IF name # <<>> THEN Put(acc, <<name>>, n) ELSE acc)
             ELSE IF key_mode = "VAddr+DBAddr"
             THEN index_from(recs, key_mode, n + 1,
                             IF vaddr # <<>> \/ dbaddr # <<>>
                             THEN Put(acc, <<vaddr, dbaddr>>, n) ELSE acc)
             ELSE [raised |-> TRUE, idx |-> acc]

\* mutant: the first BNObj of a key keeps the index slot
RECURSIVE index_first_from(_, _, _, _)
index_first_from(recs, key_mode, n, acc) ==
    IF n > Len(recs) THEN [raised |-> FALSE, idx |-> acc]
    ELSE LET b      == recs[n]
             name   == Strip(findtext(b, "Name"))
             vaddr  == Strip(findtext(b, "VAddr"))
             dbaddr == Strip(findtext(b, "DBAddr"))
         IN  IF key_mode = "Name"
             THEN index_first_from(recs, key_mode, n + 1,
                                   IF name # <<>> /\ <<name>> \notin DOMAIN acc
                                   THEN Put(acc, <<name>>, n) ELSE acc)
             ELSE IF key_mode = "VAddr+DBAddr"
             THEN index_first_from(recs, key_mode, n + 1,
                                   IF (vaddr # <<>> \/ dbaddr # <<>>)
                                      /\ <<vaddr, dbaddr>> \notin DOMAIN acc
                                   THEN Put(acc, <<vaddr, dbaddr>>, n) ELSE acc)
             ELSE [raised |-> TRUE, idx |-> acc]

index_bnobjs_first(recs, key_mode) == index_first_from(recs, key_mode, 1, EmptyMap)

index_bnobjs(recs, key_mode) == index_from(recs, key_mode, 1, EmptyMap)

\* mutant: the default field set is not intersected with the header
select_fields_all(hdr, include_fields) ==
    IF ~include_fields.given
    THEN ALL_FIELDS
    ELSE SelectSeq(include_fields.fields, LAMBDA f : f \in Range(hdr))

select_fields(hdr, include_fields) ==
    IF ~include_fields.given
    THEN SelectSeq(hdr, LAMBDA h : h \in Range(ALL_FIELDS))
    ELSE SelectSeq(include_fields.fields, LAMBDA f : f \in Range(hdr))

key_str(key, key_mode) ==
    IF key_mode = "Name" THEN key[1] ELSE key[1] \o <<"+">> \o key[2]

synth_name(r) ==
    <<"B", "N", "O", "b", "j", "_">> \o Get(r, "VAddr", <<>>) \o <<"_">>
        \o Get(r, "DBAddr", <<>>)

\* the row after csv-to-xml.py:154-155
name_row(r, key_mode) ==
    IF key_mode = "VAddr+DBAddr" /\ Get(r, "Name", <<>>) = <<>>
    THEN Put(r, "Name", synth_name(r))
    ELSE r

\* mutant: a blank cell overwrites whatever update_empty says
update_field_overwrite(st, r, tag, ks, update_empty) ==
    LET new_val == Get(r, tag, <<>>)
        old_val == findtext(st.b, tag)
    IN  IF old_val # new_val
        THEN [b  |-> set_child_text(st.b, tag, new_val),
              ch |-> Append(st.ch, [key |-> ks, tag |-> tag,
                                    old |-> old_val, new |-> new_val])]
        ELSE st

\* one pass of the body of the field loop, csv-to-xml.py:161-169
update_field(st, r, tag, ks, update_empty) ==
    LET new_val == Get(r, tag, <<>>)
        old_val == findtext(st.b, tag)
    IN  IF ~update_empty /\ new_val = <<>> THEN st
        ELSE IF old_val # new_val
        THEN [b  |-> set_child_text(st.b, tag, new_val),
              ch |-> Append(st.ch, [key |-> ks, tag |-> tag,
                                    old |-> old_val, new |-> new_val])]
        ELSE st

RECURSIVE update_fields(_, _, _, _, _, _)
update_fields(st, r, tags, n, ks, update_empty) ==
    IF n > Len(tags) THEN st
    ELSE update_fields(update_field(st, r, tags[n], ks, update_empty),
                       r, tags, n + 1, ks, update_empty)

(***************************************************************************)
(* csv-to-xml2.py.                                                         *)
(***************************************************************************)
load_csv(csv) ==
    [header |-> csv.header,
     rows   |-> [n \in 1..Len(csv.cells) |-> load_row(csv.header, csv.cells[n])]]

clear_existing_bnobj(recs) == [tree |-> <<>>, removed |-> Len(recs)]

RECURSIVE create_from(_, _, _, _, _)
create_from(bn, hdr, row, n, write_empty) ==
    IF n > Len(hdr) THEN bn
    ELSE LET tag == hdr[n]
             val == Get(row, tag, <<>>)
         IN  IF tag = "" THEN create_from(bn, hdr, row, n + 1, write_empty)
             ELSE IF ~write_empty /\ val = <<>>
             THEN create_from(bn, hdr, row, n + 1, write_empty)
             ELSE create_from(Append(bn, [tag |-> tag, text |-> val]),
                              hdr, row, n + 1, write_empty)

\* mutant: write_empty is ignored, empty tags are always written
create_bnobj_always_empty(hdr, row, write_empty) ==
    create_from(<<>>, hdr, row, 1, TRUE)

create_bnobj_from_row(hdr, row, write_empty) ==
    create_from(<<>>, hdr, row, 1, write_empty)

(***************************************************************************)
(* Inputs.                                                                 *)
(***************************************************************************)
F(t, x) == [tag |-> t, text |-> x]

\* raw cells of the first column, and of the columns after it
FirstCells == {<<>>, <<" ", "a">>}

RestCells == {<<>>, <<"a", " ">>}

ExistingRecs ==
    { <<F("Name", <<"a">>), F("Units", <<"b">>)>>,
      <<F("Name", <<" ", "a">>), F("VAddr", <<"a">>), F("DSize", <<"a">>)>>,
      <<F("VAddr", <<"a">>), F("DBAddr", <<"a", " ">>)>> }

Documents ==
    {[found |-> FALSE, recs |-> <<>>]}
        \cup {[found |-> TRUE, recs |-> c] : c \in SeqsUpTo(ExistingRecs, MaxRecs)}

UpdateHeaders == {<<>>, <<"Name", "Units">>, <<"VAddr", "DBAddr">>, <<"VAddr", "Name">>}

ReplaceHeaders ==
    {<<>>, <<"Units", "Name">>, <<"Name", "">>, <<"Name", "Name">>}

RowCells(h) ==
    {c \in [1..Len(h) -> FirstCells \cup RestCells] :
        /\ c[1] \in FirstCells
        /\ \A n \in 2..Len(h) : c[n] \in RestCells}

\* a file with no header line is an empty file
CsvFiles(headers) ==
    UNION {IF h = <<>> THEN {[header |-> h, cells |-> <<>>]}
           ELSE {[header |-> h, cells |-> c] : c \in SeqsUpTo(RowCells(h), MaxRows)}
           : h \in headers}

KeyModes == {"Name", "VAddr+DBAddr", "Addr"}

SupportedMode == opts.key_mode \in {"Name", "VAddr+DBAddr"}

IncludeFields == {[given |-> FALSE, fields |-> <<>>],
                  [given |-> TRUE, fields |-> <<"Units">>]}

UpdateOpts ==
    [key_mode : KeyModes, include_fields : IncludeFields,
     allow_add : BOOLEAN, update_empty : BOOLEAN, write_empty : {TRUE}]

ReplaceOpts ==
    [key_mode : {"Name"}, include_fields : {[given |-> FALSE, fields |-> <<>>]},
     allow_add : {FALSE}, update_empty : {FALSE}, write_empty : BOOLEAN]

NoOutput == [written |-> 0, recs |-> <<>>]

Fresh ==
    /\ run = 1
    /\ pc = "start"
    /\ err = ""
    /\ tree = <<>>
    /\ header = <<>>
    /\ rows = <<>>
    /\ fields_to_update = <<>>
    /\ idx = EmptyMap
    /\ i = 0
    /\ changes = <<>>
    /\ added = 0
    /\ skipped = 0
    /\ removed = 0
    /\ out = NoOutput

InitUpdate ==
    /\ pipeline = "update"
    /\ xml_in \in Documents
    /\ csv_in \in CsvFiles(UpdateHeaders)
    /\ opts \in UpdateOpts
    /\ Fresh

InitReplace ==
    /\ pipeline = "replace"
    /\ xml_in \in Documents
    /\ csv_in \in CsvFiles(ReplaceHeaders)
    /\ opts \in ReplaceOpts
    /\ Fresh

Init == InitUpdate \/ InitReplace

Inputs == <<pipeline, xml_in, csv_in, opts, run>>

(***************************************************************************)
(* update_from_csv.                                                        *)
(***************************************************************************)
\* csv-to-xml.py:102-132 as a function of the inputs: where the run stands
\* when the for loop is reached, or the error that ended it before.  A stage
\* that was not reached leaves its variables at their initial values.
update_start(doc, csvfile, o) ==
    LET csv  == load_csv_rows(csvfile)
        flds == select_fields(csv.header, o.include_fields)
        dups == detect_duplicate_keys(csv.rows, o.key_mode)
        ix   == index_bnobjs(doc.recs, o.key_mode)
        none == [pc |-> "abort", err |-> "node", tree |-> <<>>, header |-> <<>>,
                 rows |-> <<>>, fields |-> <<>>, idx |-> EmptyMap]
    IN  IF ~doc.found THEN none
        ELSE IF csv.header = <<>>
        THEN [none EXCEPT !.err = "header", !.tree = doc.recs]
        ELSE IF dups # {}
        THEN [none EXCEPT !.err = "dups", !.tree = doc.recs,
                          !.header = csv.header, !.rows = csv.rows, !.fields = flds]
        ELSE IF ix.raised
        THEN [none EXCEPT !.err = "keymode", !.tree = doc.recs,
                          !.header = csv.header, !.rows = csv.rows, !.fields = flds]
        ELSE [pc |-> "rows", err |-> "", tree |-> doc.recs, header |-> csv.header,
              rows |-> csv.rows, fields |-> flds, idx |-> ix.idx]

UpdateStart ==
    /\ pipeline = "update"
    /\ pc = "start"
    /\ LET s == update_start(xml_in, csv_in, opts)
       IN  /\ pc' = s.pc
           /\ err' = s.err
           /\ tree' = s.tree
           /\ header' = s.header
           /\ rows' = s.rows
           /\ fields_to_update' = s.fields
           /\ idx' = s.idx
    /\ UNCHANGED <<Inputs, i, changes, added, skipped, removed, out>>

\* mutant: allow_add is ignored, a missing key is always added
row_action_always_add(key, ix, allow_add) ==
    IF ~AnyKey(key) THEN "skip"
    ELSE IF key \in DOMAIN ix THEN "update"
    ELSE "add"

\* csv-to-xml.py:141-150: what the loop does with a row of that key
row_action(key, ix, allow_add) ==
    IF ~AnyKey(key) THEN "skip"
    ELSE IF key \in DOMAIN ix THEN "update"
    ELSE IF ~allow_add THEN "skip"
    ELSE "add"

\* csv-to-xml.py:140-169: one iteration of the for loop over rows
UpdateRow ==
    /\ pipeline = "update"
    /\ pc = "rows"
    /\ i < Len(rows)
    /\ i' = i + 1
    /\ LET r   == rows[i + 1]
           key == get_row_key(r, opts.key_mode)
           ks  == key_str(key, opts.key_mode)
           act == row_action(key, idx, opts.allow_add)
       IN  CASE act = "skip" ->
                  /\ skipped' = skipped + 1
                  /\ UNCHANGED <<tree, rows, idx, changes, added>>
             [] act = "add" ->
                  LET r2 == name_row(r, opts.key_mode)
                      st == update_fields([b |-> <<>>, ch |-> changes], r2,
                                          fields_to_update, 1, ks, opts.update_empty)
                  IN  /\ rows' = [rows EXCEPT ![i + 1] = r2]
                      /\ idx' = Put(idx, key, Len(tree) + 1)
                      /\ added' = added + 1
                      /\ tree' = Append(tree, st.b)
                      /\ changes' = st.ch
                      /\ UNCHANGED skipped
             [] act = "update" ->
                  LET p  == idx[key]
                      st == update_fields([b |-> tree[p], ch |-> changes], r,
                                          fields_to_update, 1, ks, opts.update_empty)
                  IN  /\ tree' = [tree EXCEPT ![p] = st.b]
                      /\ changes' = st.ch
                      /\ UNCHANGED <<rows, idx, added, skipped>>
    /\ UNCHANGED <<Inputs, pc, err, header, fields_to_update, removed, out>>

\* csv-to-xml.py:171-175: the loop is over, write the document
UpdateWrite ==
    /\ pipeline = "update"
    /\ pc = "rows"
    /\ i = Len(rows)
    /\ pc' = "done"
    /\ out' = [written |-> out.written + 1, recs |-> tree]
    /\ UNCHANGED <<Inputs, err, tree, header, rows, fields_to_update, idx, i,
                   changes, added, skipped, removed>>

\* a second update_from_csv call: same CSV, same arguments, and as xml_in the
\* file the first call wrote
UpdateAgain ==
    /\ pipeline = "update"
    /\ pc = "done"
    /\ run = 1
    /\ run' = 2
    /\ xml_in' = [found |-> TRUE, recs |-> out.recs]
    /\ pc' = "start"
    /\ tree' = <<>>
    /\ header' = <<>>
    /\ rows' = <<>>
    /\ fields_to_update' = <<>>
    /\ idx' = EmptyMap
    /\ i' = 0
    /\ changes' = <<>>
    /\ added' = 0
    /\ skipped' = 0
    /\ out' = NoOutput
    /\ UNCHANGED <<pipeline, csv_in, opts, err, removed>>

(***************************************************************************)
(* replace_bnobj_from_csv.                                                 *)
(***************************************************************************)
\* mutant: the existing BNObj are removed before the CSV is checked for rows
replace_start_clear_first(doc, csvfile) ==
    LET csv  == load_csv(csvfile)
        none == [pc |-> "abort", err |-> "node", tree |-> <<>>, header |-> <<>>,
                 rows |-> <<>>]
    IN  IF ~doc.found THEN none
        ELSE IF csv.header = <<>>
        THEN [none EXCEPT !.err = "header", !.tree = doc.recs]
        ELSE IF csv.rows = <<>>
        THEN [none EXCEPT !.err = "norows", !.tree = <<>>,
                          !.header = csv.header]
        ELSE [pc |-> "clear", err |-> "", tree |-> doc.recs,
              header |-> csv.header, rows |-> csv.rows]

\* csv-to-xml2.py:68-78 as a function of the inputs
replace_start(doc, csvfile) ==
    LET csv  == load_csv(csvfile)
        none == [pc |-> "abort", err |-> "node", tree |-> <<>>, header |-> <<>>,
                 rows |-> <<>>]
    IN  IF ~doc.found THEN none
        ELSE IF csv.header = <<>>
        THEN [none EXCEPT !.err = "header", !.tree = doc.recs]
        ELSE IF csv.rows = <<>>
        THEN [none EXCEPT !.err = "norows", !.tree = doc.recs,
                          !.header = csv.header]
        ELSE [pc |-> "clear", err |-> "", tree |-> doc.recs,
              header |-> csv.header, rows |-> csv.rows]

ReplaceStart ==
    /\ pipeline = "replace"
    /\ pc = "start"
    /\ LET s == replace_start(xml_in, csv_in)
       IN  /\ pc' = s.pc
           /\ err' = s.err
           /\ tree' = s.tree
           /\ header' = s.header
           /\ rows' = s.rows
    /\ UNCHANGED <<Inputs, fields_to_update, idx, i, changes, added, skipped,
                   removed, out>>

\* csv-to-xml2.py:80-81
ReplaceClear ==
    /\ pipeline = "replace"
    /\ pc = "clear"
    /\ pc' = "rows"
    /\ tree' = clear_existing_bnobj(tree).tree
    /\ removed' = clear_existing_bnobj(tree).removed
    /\ UNCHANGED <<Inputs, err, header, rows, fields_to_update, idx, i, changes,
                   added, skipped, out>>

\* csv-to-xml2.py:84-85: one iteration of the for loop over rows
ReplaceRow ==
    /\ pipeline = "replace"
    /\ pc = "rows"
    /\ i < Len(rows)
    /\ i' = i + 1
    /\ tree' = Append(tree, create_bnobj_from_row(header, rows[i + 1],
                                                  opts.write_empty))
    /\ UNCHANGED <<Inputs, pc, err, header, rows, fields_to_update, idx, changes,
                   added, skipped, removed, out>>

\* csv-to-xml2.py:87-95: write the document, report len(rows) as added
ReplaceWrite ==
    /\ pipeline = "replace"
    /\ pc = "rows"
    /\ i = Len(rows)
    /\ pc' = "done"
    /\ out' = [written |-> out.written + 1, recs |-> tree]
    /\ added' = Len(rows)
    /\ UNCHANGED <<Inputs, err, tree, header, rows, fields_to_update, idx, i,
                   changes, skipped, removed>>

Next ==
    \/ UpdateStart
    \/ UpdateRow
    \/ UpdateWrite
    \/ ReplaceStart
    \/ ReplaceClear
    \/ ReplaceRow
    \/ ReplaceWrite

Spec == Init /\ [][Next]_vars

\* the Selective Updater run twice in a row
NextTwice ==
    \/ UpdateStart
    \/ UpdateRow
    \/ UpdateWrite
    \/ UpdateAgain

SpecTwice == InitUpdate /\ [][NextTwice]_vars

(***************************************************************************)
(* Vocabulary of the properties, in terms of the inputs of the run.        *)
(***************************************************************************)
\* the trimmed cell of CSV row n in column col, empty if there is no such column
Cell(n, col) ==
    IF col \in Range(csv_in.header)
    THEN Strip(csv_in.cells[n][LastCol(csv_in.header, col)])
    ELSE <<>>

\* the Key of CSV row n under the key mode of the run
CsvKey(n) ==
    IF opts.key_mode = "Name" THEN <<Cell(n, "Name")>>
    ELSE <<Cell(n, "VAddr"), Cell(n, "DBAddr")>>

\* the Key of a Record under the key mode of the run
KeyOf(b) ==
    IF opts.key_mode = "Name" THEN <<Strip(findtext(b, "Name"))>>
    ELSE <<Strip(findtext(b, "VAddr")), Strip(findtext(b, "DBAddr"))>>

NRows == Len(csv_in.cells)

NOrig == Len(xml_in.recs)

BlankRow(n) == ~AnyKey(CsvKey(n))

NotFoundRow(n) ==
    /\ AnyKey(CsvKey(n))
    /\ \A p \in 1..NOrig : KeyOf(xml_in.recs[p]) # CsvKey(n)

\* whether a Record has the field, and its text
FieldOf(b, tag) == [present |-> find(b, tag) # 0, text |-> findtext(b, tag)]

\* the children of a Record whose tag is not in S, in order
Others(b, S) == SelectSeq(b, LAMBDA f : f.tag \notin S)

Tags == Range(ALL_FIELDS) \cup Range(csv_in.header)

Running == pc \in {"rows", "done"}

(***************************************************************************)
(* C1.  A run is all-or-nothing, in both pipelines: when it has aborted,   *)
(* the container holds exactly the Records parsed from the input and no    *)
(* output has been written; when it has not aborted, the output is written *)
(* exactly once, after every row has been processed, and holds the tree.   *)
(***************************************************************************)
C1_AllOrNothing ==
    /\ pc = "abort" => tree = xml_in.recs /\ out = NoOutput
    /\ pc = "done" => out.written = 1 /\ out.recs = tree /\ i = NRows
    /\ pc # "done" => out.written = 0

\* a Full Replace run refused a CSV without data rows while Records existed
C1_Witness == pipeline = "replace" /\ pc = "abort" /\ err = "norows" /\ NOrig > 0

(***************************************************************************)
(* C2.  Rows whose key columns are all blank are skipped and never         *)
(* reported as duplicates: a run ends on the duplicate-key error only if   *)
(* some non-empty Key occurs in two rows, and a run that completes has     *)
(* counted every blank-key row in skipped.                                 *)
(***************************************************************************)
C2_BlankKeyRowsSkipped ==
    pipeline = "update" =>
        /\ (pc = "abort" /\ err = "dups") =>
              \E n, m \in 1..NRows :
                  n # m /\ CsvKey(n) = CsvKey(m) /\ AnyKey(CsvKey(n))
        /\ pc = "done" => skipped >= Cardinality({n \in 1..NRows : BlankRow(n)})

(***************************************************************************)
(* C7.  An unsupported key mode is always fatal for the Selective Updater: *)
(* once past its start the run has aborted, with the key-mode error when   *)
(* the container and the header were found, no row was processed and no    *)
(* output was written.                                                     *)
(***************************************************************************)
C7_BadKeyModeFatal ==
    (pipeline = "update" /\ ~SupportedMode /\ pc # "start") =>
        /\ pc = "abort"
        /\ i = 0
        /\ out = NoOutput
        /\ (xml_in.found /\ csv_in.header # <<>>) => err = "keymode"

(***************************************************************************)
(* C3.  The Selective Updater is idempotent: a second run with the same    *)
(* CSV and the same settings on the output of the first ends with an empty *)
(* change log and no added Record.                                         *)
(***************************************************************************)
C3_Idempotent ==
    (pipeline = "update" /\ SupportedMode /\ run = 2 /\ pc = "done") =>
        changes = <<>> /\ added = 0

(***************************************************************************)
(* C4.  Add-on-miss with a synthesized Name: with allowAdd and the         *)
(* composite key mode, processing a row whose non-empty Key matches no     *)
(* Record and whose Name is absent or blank appends exactly one Record,    *)
(* and that Record has a Name field equal to BNObj_<VAddr>_<DBAddr>.       *)
(* Stated for the runs without includeFields, where it already fails.      *)
(***************************************************************************)
C4_AddOnMissNamed ==
    [][ ( /\ pipeline = "update"
          /\ pc = "rows"
          /\ i' = i + 1
          /\ opts.allow_add
          /\ ~opts.include_fields.given
          /\ opts.key_mode = "VAddr+DBAddr"
          /\ AnyKey(CsvKey(i + 1))
          /\ \A p \in 1..Len(tree) : KeyOf(tree[p]) # CsvKey(i + 1)
          /\ Cell(i + 1, "Name") = <<>> )
        => ( /\ Len(tree') = Len(tree) + 1
             /\ SubSeq(tree', 1, Len(tree)) = tree
             /\ FieldOf(tree'[Len(tree')], "Name") =
                   [present |-> TRUE,
                    text |-> <<"B", "N", "O", "b", "j", "_">> \o Cell(i + 1, "VAddr")
                                \o <<"_">> \o Cell(i + 1, "DBAddr")] ) ]_vars

(***************************************************************************)
(* C5.  Selective field scoping, as claimed: in Name mode with no          *)
(* includeFields and the header [Name, Units], every field other than      *)
(* Units of every existing Record keeps its value, Name included, and Name *)
(* never appears in the change log of a run that added no Record.          *)
(***************************************************************************)
C5Case ==
    /\ pipeline = "update"
    /\ opts.key_mode = "Name"
    /\ ~opts.include_fields.given
    /\ csv_in.header = <<"Name", "Units">>
    /\ Running

C5_OnlyUnits ==
    C5Case =>
        /\ \A p \in 1..NOrig :
              Others(tree[p], {"Units"}) = Others(xml_in.recs[p], {"Units"})
        /\ added = 0 => \A k \in 1..Len(changes) : changes[k].tag # "Name"

(***************************************************************************)
(* C5, amended.  In that case the only fields of an existing Record the    *)
(* run may create or change are Units and Name; Name is never created or   *)
(* removed and changes only by losing its surrounding whitespace (the log  *)
(* entry has new = trimmed old); every other field keeps its value.        *)
(***************************************************************************)
C5_OnlyUnitsAndTrimmedName ==
    C5Case =>
        /\ \A p \in 1..NOrig :
              /\ Others(tree[p], {"Name", "Units"}) =
                    Others(xml_in.recs[p], {"Name", "Units"})
              /\ find(tree[p], "Name") = find(xml_in.recs[p], "Name")
              /\ Strip(findtext(tree[p], "Name")) =
                    Strip(findtext(xml_in.recs[p], "Name"))
        /\ added = 0 =>
              \A k \in 1..Len(changes) :
                  /\ changes[k].tag \in {"Name", "Units"}
                  /\ changes[k].tag = "Name" => changes[k].new = Strip(changes[k].old)

\* a matched Record had its padded Name rewritten and its Units set
C5_Witness ==
    /\ C5Case
    /\ pc = "done"
    /\ added = 0
    /\ \E k \in 1..Len(changes) : changes[k].tag = "Name"
    /\ \E k \in 1..Len(changes) : changes[k].tag = "Units"
    /\ \E p \in 1..NOrig : find(xml_in.recs[p], "DSize") # 0 /\ tree[p] # xml_in.recs[p]

(***************************************************************************)
(* C6.  Full Replace postcondition, as claimed: after a successful run the *)
(* container holds one Record per CSV row, in row order, whose fields are  *)
(* the header's columns in header order with the row's values (empty ones  *)
(* omitted when writeEmpty is false); removed is the original number of    *)
(* Records and added the number of rows.  The row's value for a column is  *)
(* its trimmed cell, the last one of that name when a name repeats.        *)
(***************************************************************************)
\* the Record expected for CSV row n; skipBlank: columns without a name are left out
ExpectedRecord(n, skipBlank) ==
    LET h    == csv_in.header
        keep(c) == /\ (opts.write_empty \/ Cell(n, h[c]) # <<>>)
                   /\ (skipBlank => h[c] # "")
        cols == SelectSeq([c \in 1..Len(h) |-> c], keep)
    IN  [k \in 1..Len(cols) |->
            [tag |-> h[cols[k]], text |-> Cell(n, h[cols[k]])]]

ReplacePost(skipBlank) ==
    (pipeline = "replace" /\ pc = "done") =>
        /\ Len(tree) = NRows
        /\ \A n \in 1..NRows : tree[n] = ExpectedRecord(n, skipBlank)
        /\ out.recs = tree
        /\ removed = NOrig
        /\ added = NRows

C6_ReplacePost == ReplacePost(FALSE)

(***************************************************************************)
(* C6, amended.  The same, except that a header column whose name is blank *)
(* produces no field.                                                      *)
(***************************************************************************)
C6_ReplacePostNamedColumns == ReplacePost(TRUE)

\* a replace of existing Records by two rows, one of them all blank, writeEmpty off
C6_Witness ==
    /\ pipeline = "replace"
    /\ pc = "done"
    /\ ~opts.write_empty
    /\ NOrig > 0
    /\ NRows = 2
    /\ \E n \in 1..NRows : tree[n] = <<>>
    /\ \E n \in 1..NRows : Len(tree[n]) = 2

(***************************************************************************)
(* C8.  Skip-on-miss: with allowAdd off, processing a row whose non-empty  *)
(* Key matches no Record leaves the container and the change log as they   *)
(* are and adds exactly 1 to skipped; throughout the run the number of     *)
(* Records is the original one, added is 0, and skipped counts the rows    *)
(* processed so far that have an empty Key or a Key that was not found.    *)
(***************************************************************************)
C8Case == pipeline = "update" /\ ~opts.allow_add /\ Running

C8_Counts ==
    C8Case =>
        /\ Len(tree) = NOrig
        /\ added = 0
        /\ skipped = Cardinality({n \in 1..i : BlankRow(n) \/ NotFoundRow(n)})

C8_SkipOnMiss ==
    /\ []C8_Counts
    /\ [][ (C8Case /\ pc = "rows" /\ i' = i + 1 /\ NotFoundRow(i + 1))
           => ( /\ tree' = tree
                /\ changes' = changes
                /\ added' = added
                /\ skipped' = skipped + 1 ) ]_vars

\* a finished run that skipped one row for its empty Key and one as not found
C8_Witness ==
    /\ C8Case
    /\ pc = "done"
    /\ NOrig > 0
    /\ skipped = 2
    /\ \E n \in 1..NRows : BlankRow(n)
    /\ \E n \in 1..NRows : NotFoundRow(n)

(***************************************************************************)
(* C9.  Blank cells do not overwrite when updateEmpty is off: processing a *)
(* row that matches an existing Record leaves every field whose cell is    *)
(* empty as it was (text unchanged, not created) and logs nothing for it.  *)
(* In every row step a field is written exactly when one change-log entry  *)
(* is appended for it, and every entry has an old value different from its *)
(* new value.                                                              *)
(***************************************************************************)
\* the entries a step appends for that tag
NewEntries(tag) ==
    {k \in (Len(changes) + 1)..Len(changes') : changes'[k].tag = tag}

\* the Record at position p before the step (an added Record starts empty)
Before(p) == IF p <= Len(tree) THEN tree[p] ELSE <<>>

Written(tag) ==
    \E p \in 1..Len(tree') : FieldOf(tree'[p], tag) # FieldOf(Before(p), tag)

C9_Entries == \A k \in 1..Len(changes) : changes[k].old # changes[k].new

C9_BlankCellsKeep ==
    /\ []C9_Entries
    /\ [][ (pipeline = "update" /\ pc = "rows" /\ i' = i + 1)
           => /\ SubSeq(changes', 1, Len(changes)) = changes
              /\ \A tag \in Tags :
                    /\ Written(tag) <=> NewEntries(tag) # {}
                    /\ Cardinality(NewEntries(tag)) <= 1
                    /\ (~opts.update_empty /\ Len(tree') = Len(tree)
                            /\ Cell(i + 1, tag) = <<>>)
                       => (~Written(tag) /\ NewEntries(tag) = {}) ]_vars

\* a row matched an existing Record, one of its cells in an updated column was
\* blank, and the Record still has its value there
C9_Witness ==
    /\ pipeline = "update"
    /\ ~opts.update_empty
    /\ pc = "done"
    /\ changes # <<>>
    /\ \E n \in 1..NRows, p \in 1..NOrig :
          /\ AnyKey(CsvKey(n))
          /\ KeyOf(xml_in.recs[p]) = CsvKey(n)
          /\ \E tag \in Range(fields_to_update) :
                /\ Cell(n, tag) = <<>>
                /\ findtext(xml_in.recs[p], tag) # <<>>
                /\ FieldOf(tree[p], tag) = FieldOf(xml_in.recs[p], tag)

(***************************************************************************)
(* C10.  Last-write-wins indexing of the pre-existing Records: the index   *)
(* maps every non-empty Key of an original Record to the last original     *)
(* Record of that Key; an earlier Record of the same Key, and a Record of  *)
(* empty Key, is never indexed and keeps its position and all its fields   *)
(* (so only the last one can be updated); and a collision is not fatal:    *)
(* the run aborts only for a missing container or header or for two CSV    *)
(* rows of the same Key.                                                   *)
(***************************************************************************)
Shadowed(p) ==
    \E q \in (p + 1)..NOrig : KeyOf(xml_in.recs[q]) = KeyOf(xml_in.recs[p])

C10_LastWriteWins ==
    (pipeline = "update" /\ SupportedMode) =>
        /\ Running =>
              \A p \in 1..NOrig :
                  LET k == KeyOf(xml_in.recs[p])
                  IN  /\ (AnyKey(k) /\ ~Shadowed(p)) => (k \in DOMAIN idx /\ idx[k] = p)
                      /\ (~AnyKey(k) \/ Shadowed(p)) =>
                            /\ tree[p] = xml_in.recs[p]
                            /\ \A x \in DOMAIN idx : idx[x] # p
        /\ pc = "abort" =>
              \/ err = "node" /\ ~xml_in.found
              \/ err = "header" /\ csv_in.header = <<>>
              \/ err = "dups" /\ \E n, m \in 1..NRows : n # m /\ CsvKey(n) = CsvKey(m)

\* two original Records share a Key; the run finished, changed the later one
\* and left the earlier one alone
C10_Witness ==
    /\ pipeline = "update"
    /\ SupportedMode
    /\ pc = "done"
    /\ NOrig = 2
    /\ AnyKey(KeyOf(xml_in.recs[1]))
    /\ KeyOf(xml_in.recs[1]) = KeyOf(xml_in.recs[2])
    /\ tree[1] = xml_in.recs[1]
    /\ tree[2] # xml_in.recs[2]

=============================================================================
